---------------------------- MODULE Spec2Model ----------------------------
(***************************************************************************)
(* Shamir secret reconstruction: answer.js (Lagrange form) and             *)
(* solvepolynomial.js (Vandermonde system, Gauss-Jordan elimination).      *)
(*                                                                         *)
(* Both programs compute on JavaScript Numbers, i.e. IEEE-754 binary64.    *)
(* The first part of the module is that arithmetic: a double is a sign, an *)
(* odd significand of at most 53 bits and an exponent, and every operation *)
(* rounds its exact result to nearest, ties to even.  Significands do not  *)
(* fit the 32-bit integers of TLC, so natural numbers are kept as          *)
(* little-endian sequences of 15-bit limbs.                                *)
(***************************************************************************)
EXTENDS Integers, Sequences, FiniteSets, TLC

(***************************************************************************)
(* Natural numbers of any size: <<>> is 0, no leading (high) zero limb.    *)
(***************************************************************************)
LimbBits == 15
R == 2^LimbBits

Max2(a, b) == IF a >= b THEN a ELSE b
Min2(a, b) == IF a <= b THEN a ELSE b

RECURSIVE BNorm(_)
BNorm(a) ==
    IF Len(a) = 0 THEN a
    ELSE IF a[Len(a)] = 0 THEN BNorm(SubSeq(a, 1, Len(a) - 1))
    ELSE a

RECURSIVE BFromNat(_)
BFromNat(n) == IF n = 0 THEN <<>> ELSE <<n % R>> \o BFromNat(n \div R)

Limb(a, i) == IF i <= Len(a) THEN a[i] ELSE 0

RECURSIVE BAddC(_, _, _, _)
BAddC(a, b, i, c) ==
    IF i > Len(a) /\ i > Len(b)
    THEN (IF c = 0 THEN <<>> ELSE <<c>>)
    ELSE LET s == Limb(a, i) + Limb(b, i) + c
         IN  <<s % R>> \o BAddC(a, b, i + 1, s \div R)

BAdd(a, b) == BAddC(a, b, 1, 0)

RECURSIVE BSubC(_, _, _, _)
BSubC(a, b, i, br) ==
    IF i > Len(a) THEN <<>>
    ELSE LET d == Limb(a, i) - Limb(b, i) - br
         IN  <<(d + R) % R>> \o BSubC(a, b, i + 1, IF d < 0 THEN 1 ELSE 0)

\* a - b for a >= b
BSub(a, b) == BNorm(BSubC(a, b, 1, 0))

RECURSIVE BCmpFrom(_, _, _)
BCmpFrom(a, b, i) ==
    IF i = 0 THEN 0
    ELSE IF a[i] > b[i] THEN 1
    ELSE IF a[i] < b[i] THEN -1
    ELSE BCmpFrom(a, b, i - 1)

\* -1, 0, 1 as a < b, a = b, a > b
BCmp(a, b) ==
    IF Len(a) > Len(b) THEN 1
    ELSE IF Len(a) < Len(b) THEN -1
    ELSE BCmpFrom(a, b, Len(a))

RECURSIVE BMulSmallC(_, _, _, _)
BMulSmallC(a, c, i, carry) ==
    IF i > Len(a)
    THEN (IF carry = 0 THEN <<>> ELSE <<carry>>)
    ELSE LET p == a[i] * c + carry
         IN  <<p % R>> \o BMulSmallC(a, c, i + 1, p \div R)

\* a * c for 0 <= c < R
BMulSmall(a, c) == IF c = 0 THEN <<>> ELSE BMulSmallC(a, c, 1, 0)

RECURSIVE BMulFrom(_, _, _)
BMulFrom(a, b, i) ==
    IF i > Len(b) THEN <<>>
    ELSE BAdd(BMulSmall(a, b[i]), <<0>> \o BMulFrom(a, b, i + 1))

BMul(a, b) == IF Len(a) = 0 \/ Len(b) = 0 THEN <<>> ELSE BNorm(BMulFrom(a, b, 1))

Zeros(q) == [i \in 1..q |-> 0]

\* a * 2^n
BShl(a, n) ==
    IF Len(a) = 0 THEN a
    ELSE Zeros(n \div LimbBits) \o BMulSmall(a, 2^(n % LimbBits))

\* floor(a / 2^n)
BShr(a, n) ==
    LET q == n \div LimbBits
        p == 2^(n % LimbBits)
        t == IF q >= Len(a) THEN <<>> ELSE SubSeq(a, q + 1, Len(a))
    IN  BNorm([i \in 1..Len(t) |-> (t[i] \div p) + (Limb(t, i + 1) % p) * (R \div p)])

RECURSIVE SmallBitLen(_)
SmallBitLen(n) == IF n = 0 THEN 0 ELSE 1 + SmallBitLen(n \div 2)

BBitLen(a) ==
    IF Len(a) = 0 THEN 0 ELSE LimbBits * (Len(a) - 1) + SmallBitLen(a[Len(a)])

\* bit i of a, bit 0 the lowest
BBit(a, i) == (Limb(a, i \div LimbBits + 1) \div 2^(i % LimbBits)) % 2

\* some bit among the n lowest of a is set
BLowNonzero(a, n) ==
    \/ \E j \in 1..Min2(n \div LimbBits, Len(a)) : a[j] # 0
    \/ Limb(a, n \div LimbBits + 1) % 2^(n % LimbBits) # 0

RECURSIVE SmallTrailingZeros(_)
SmallTrailingZeros(n) == IF n % 2 = 1 THEN 0 ELSE 1 + SmallTrailingZeros(n \div 2)

RECURSIVE BTrailingZerosFrom(_, _)
BTrailingZerosFrom(a, i) ==
    IF a[i] = 0 THEN LimbBits + BTrailingZerosFrom(a, i + 1)
    ELSE SmallTrailingZeros(a[i])

\* the number of low zero bits of a # 0
BTrailingZeros(a) == BTrailingZerosFrom(a, 1)

RECURSIVE DivLimb(_, _, _, _)
\* the largest d < R with d * b <= r, where r < R * b: its bits from the top
DivLimb(r, b, bit, d) ==
    IF bit < 0 THEN d
    ELSE LET t == d + 2^bit
         IN  IF BCmp(BMulSmall(b, t), r) <= 0
             THEN DivLimb(r, b, bit - 1, t)
             ELSE DivLimb(r, b, bit - 1, d)

RECURSIVE BDivStep(_, _, _)
\* long division of the limbs i..Len(a) of a by b
BDivStep(a, b, i) ==
    IF i > Len(a) THEN [q |-> <<>>, r |-> <<>>]
    ELSE LET up == BDivStep(a, b, i + 1)
             r2 == BNorm(<<a[i]>> \o up.r)
             d == DivLimb(r2, b, LimbBits - 1, 0)
         IN  [q |-> <<d>> \o up.q, r |-> BSub(r2, BMulSmall(b, d))]

\* quotient and remainder of a by b # 0
BDivMod(a, b) ==
    LET d == BDivStep(a, b, 1) IN [q |-> BNorm(d.q), r |-> d.r]

RECURSIVE BPow(_, _)
BPow(a, p) == IF p = 0 THEN <<1>> ELSE BMul(a, BPow(a, p - 1))


(***************************************************************************)
(* JavaScript Numbers (IEEE-754 binary64).  A finite nonzero double is     *)
(* (-1)^neg * m * 2^e with m odd, so that equal numbers are equal records; *)
(* zero keeps its sign, m = <<>> and e = 0.                                *)
(***************************************************************************)
MantBits == 53
EMaxBits == 1024
EMinExp == -1074

NaN == [cls |-> "nan", neg |-> FALSE, m |-> <<>>, e |-> 0]
Inf(neg) == [cls |-> "inf", neg |-> neg, m |-> <<>>, e |-> 0]
Zero(neg) == [cls |-> "fin", neg |-> neg, m |-> <<>>, e |-> 0]

\* the record of (-1)^neg * n * 2^e for n # 0 of at most 53 bits
Fin(neg, n, e) ==
    LET tz == BTrailingZeros(n)
    IN  [cls |-> "fin", neg |-> neg, m |-> BShr(n, tz), e |-> e + tz]

IsNaN(a) == a.cls = "nan"
IsInf(a) == a.cls = "inf"
IsZero(a) == a.cls = "fin" /\ Len(a.m) = 0
IsFinite(a) == a.cls = "fin"

\* the double nearest to (-1)^neg * n * 2^e, n # 0: round to nearest, ties
\* to even, gradual underflow, overflow to infinity
DRound(neg, n, e) ==
    LET L == BBitLen(n)
        drop == Max2(L - MantBits, EMinExp - e)
    IN  IF drop <= 0
        THEN (IF L + e > EMaxBits THEN Inf(neg) ELSE Fin(neg, n, e))
        ELSE LET q == BShr(n, drop)
                 half == BBit(n, drop - 1) = 1
                 sticky == BLowNonzero(n, drop - 1)
                 up == half /\ (sticky \/ BBit(q, 0) = 1)
                 q2 == IF up THEN BAdd(q, <<1>>) ELSE q
             IN  IF Len(q2) = 0 THEN Zero(neg)
                 ELSE IF BBitLen(q2) + e + drop > EMaxBits THEN Inf(neg)
                 ELSE Fin(neg, q2, e + drop)

\* the Number of a small integer
DFromInt(i) ==
    IF i = 0 THEN Zero(FALSE)
    ELSE Fin(i < 0, BFromNat(IF i < 0 THEN -i ELSE i), 0)

DNeg(a) == IF IsNaN(a) THEN a ELSE [a EXCEPT !.neg = ~a.neg]

MathAbs(a) == IF IsNaN(a) THEN a ELSE [a EXCEPT !.neg = FALSE]

\* a + b
DAdd(a, b) ==
    IF IsNaN(a) \/ IsNaN(b) THEN NaN
    ELSE IF IsInf(a) THEN (IF IsInf(b) /\ a.neg # b.neg THEN NaN ELSE a)
    ELSE IF IsInf(b) THEN b
    ELSE IF IsZero(a) /\ IsZero(b) THEN Zero(a.neg /\ b.neg)
    ELSE IF IsZero(a) THEN b
    ELSE IF IsZero(b) THEN a
    ELSE LET e0 == Min2(a.e, b.e)
             x == BShl(a.m, a.e - e0)
             y == BShl(b.m, b.e - e0)
             c == BCmp(x, y)
         IN  IF a.neg = b.neg THEN DRound(a.neg, BAdd(x, y), e0)
             ELSE IF c = 0 THEN Zero(FALSE)
             ELSE IF c > 0 THEN DRound(a.neg, BSub(x, y), e0)
             ELSE DRound(b.neg, BSub(y, x), e0)

\* a - b
DSub(a, b) == DAdd(a, DNeg(b))

\* a * b
DMul(a, b) ==
    IF IsNaN(a) \/ IsNaN(b) THEN NaN
    ELSE IF IsInf(a) \/ IsInf(b)
    THEN (IF IsZero(a) \/ IsZero(b) THEN NaN ELSE Inf(a.neg # b.neg))
    ELSE IF IsZero(a) \/ IsZero(b) THEN Zero(a.neg # b.neg)
    ELSE DRound(a.neg # b.neg, BMul(a.m, b.m), a.e + b.e)

\* a / b: the quotient is developed to 55 bits or more and a sticky bit
\* for the remainder is appended before the one rounding
DDiv(a, b) ==
    IF IsNaN(a) \/ IsNaN(b) THEN NaN
    ELSE IF IsInf(a) THEN (IF IsInf(b) THEN NaN ELSE Inf(a.neg # b.neg))
    ELSE IF IsInf(b) THEN Zero(a.neg # b.neg)
    ELSE IF IsZero(b) THEN (IF IsZero(a) THEN NaN ELSE Inf(a.neg # b.neg))
    ELSE IF IsZero(a) THEN Zero(a.neg # b.neg)
    ELSE LET s == Max2(0, MantBits + 2 + BBitLen(b.m) - BBitLen(a.m))
             d == BDivMod(BShl(a.m, s), b.m)
             n == BAdd(BMulSmall(d.q, 2), IF Len(d.r) = 0 THEN <<>> ELSE <<1>>)
         IN  DRound(a.neg # b.neg, n, a.e - b.e - s - 1)

\* -1, 0, 1 as |a| < |b|, |a| = |b|, |a| > |b|, for finite a and b
MagCmp(a, b) ==
    IF IsZero(a) THEN (IF IsZero(b) THEN 0 ELSE -1)
    ELSE IF IsZero(b) THEN 1
    ELSE LET ta == BBitLen(a.m) + a.e
             tb == BBitLen(b.m) + b.e
             e0 == Min2(a.e, b.e)
         IN  IF ta > tb THEN 1
             ELSE IF ta < tb THEN -1
             ELSE BCmp(BShl(a.m, a.e - e0), BShl(b.m, b.e - e0))

\* a < b
DLt(a, b) ==
    IF IsNaN(a) \/ IsNaN(b) THEN FALSE
    ELSE IF IsInf(a) THEN a.neg /\ ~(IsInf(b) /\ b.neg)
    ELSE IF IsInf(b) THEN ~b.neg
    ELSE IF IsZero(a) /\ IsZero(b) THEN FALSE
    ELSE IF IsZero(a) THEN ~b.neg
    ELSE IF IsZero(b) THEN a.neg
    ELSE IF a.neg # b.neg THEN a.neg
    ELSE IF a.neg THEN MagCmp(a, b) > 0
    ELSE MagCmp(a, b) < 0

\* a > b
DGt(a, b) == DLt(b, a)

\* a === b
DEq(a, b) ==
    IF IsNaN(a) \/ IsNaN(b) THEN FALSE
    ELSE IF IsZero(a) /\ IsZero(b) THEN TRUE
    ELSE a = b

\* a >= b
DGe(a, b) == DGt(a, b) \/ DEq(a, b)

\* Math.round: the nearest integer, a tie towards +Infinity; the sign of a
\* zero result is the sign of the argument
MathRound(a) ==
    IF ~IsFinite(a) \/ IsZero(a) \/ a.e >= 0 THEN a
    ELSE LET f == -a.e
             ip == BShr(a.m, f)
             half == BBit(a.m, f - 1) = 1
             rest == BLowNonzero(a.m, f - 1)
             up == IF a.neg THEN half /\ rest ELSE half
             r == IF up THEN BAdd(ip, <<1>>) ELSE ip
         IN  IF Len(r) = 0 THEN Zero(a.neg) ELSE DRound(a.neg, r, 0)

\* Math.pow(x, p) for an integer p >= 0: on the integers the programs raise
\* (keys to powers below the threshold) every product is exact
RECURSIVE MathPow(_, _)
MathPow(x, p) == IF p = 0 THEN DFromInt(1) ELSE DMul(MathPow(x, p - 1), x)


(***************************************************************************)
(* Strings are sequences of one-character strings.  "KELVIN" stands for    *)
(* the one character U+212A (KELVIN SIGN), whose lower case is "k".        *)
(***************************************************************************)
digits ==
    << "0", "1", "2", "3", "4", "5", "6", "7", "8", "9", "a", "b", "c", "d",
       "e", "f", "g", "h", "i", "j", "k", "l", "m", "n", "o", "p", "q", "r",
       "s", "t", "u", "v", "w", "x", "y", "z" >>

UpperCase ==
    << "A", "B", "C", "D", "E", "F", "G", "H", "I", "J", "K", "L", "M", "N",
       "O", "P", "Q", "R", "S", "T", "U", "V", "W", "X", "Y", "Z" >>

\* String.prototype.toLowerCase on one character
toLowerCase(c) ==
    IF c = "KELVIN" THEN "k"
    ELSE IF \E i \in 1..Len(UpperCase) : UpperCase[i] = c
    THEN digits[10 + CHOOSE i \in 1..Len(UpperCase) : UpperCase[i] = c]
    ELSE c

\* String.prototype.indexOf of a one-character string: 0-based, -1 if absent
indexOf(str, c) ==
    IF \E i \in 1..Len(str) : str[i] = c
    THEN (CHOOSE i \in 1..Len(str) : str[i] = c) - 1
    ELSE -1

\* what a call ends in: a returned value or a thrown Error
Return(v) == [kind |-> "return", val |-> v]
Throw(err) == [kind |-> "throw", err |-> err]

\* new Error(`Invalid digit '${value[i]}' for base ${base}`)
InvalidDigit(c, base) == [msg |-> "Invalid digit", char |-> c, base |-> base]

\* one iteration of the loop of convertToDecimal: the result after the
\* iteration, or the Error it throws
convertStep(value, base, i, result) ==
    LET digit == indexOf(digits, toLowerCase(value[i]))
    IN  IF digit = -1 \/ DGe(DFromInt(digit), base)
        THEN Throw(InvalidDigit(value[i], base))
        ELSE Return(DAdd(DMul(result, base), DFromInt(digit)))

RECURSIVE convertFrom(_, _, _, _)
convertFrom(value, base, i, result) ==
    IF i > Len(value) THEN Return(result)
    ELSE LET st == convertStep(value, base, i, result)
         IN  IF st.kind = "throw" THEN st
             ELSE convertFrom(value, base, i + 1, st.val)

\* convertToDecimal(value, base), base a Number
convertToDecimal(value, base) == convertFrom(value, base, 1, Zero(FALSE))

(***************************************************************************)
(* parseInt(string, radix) of ECMA-262: leading white space is skipped, a  *)
(* sign is read, the radix is ToInt32(radix) with 0 (also for undefined or *)
(* NaN) meaning 10, a 0x prefix is read for radix 16 or 0, then the        *)
(* longest prefix of digits of the radix is taken, and its value is        *)
(* rounded once to a Number; no digit at all gives NaN.  The value is the  *)
(* exact one here; ECMA-262 lets an engine approximate it for a radix      *)
(* other than 2, 4, 8, 10, 16, 32 (and past 20 digits for radix 10), so    *)
(* the inputs with values above 2^53 are given in radix 10 or 16.          *)
(***************************************************************************)
\* the integer part of |a| modulo 2^32, for finite a
Uint32Big(a) ==
    LET t == IF IsZero(a) THEN <<>>
             ELSE IF a.e >= 0 THEN BShl(a.m, a.e)
             ELSE BShr(a.m, -a.e)
        lo == BNorm([i \in 1..Min2(Len(t), 3) |->
                        IF i = 3 THEN t[i] % 4 ELSE t[i]])
    IN  IF a.neg /\ Len(lo) > 0 THEN BSub(<<0, 0, 4>>, lo) ELSE lo

\* ToInt32(radix) as far as parseInt tells the values apart: 0, 2..36, or
\* 37 for every other value
RadixOf(a) ==
    IF ~IsFinite(a) THEN 0
    ELSE LET u == Uint32Big(a)
         IN  IF Len(u) = 0 THEN 0
             ELSE IF Len(u) = 1 /\ u[1] >= 2 /\ u[1] <= 36 THEN u[1]
             ELSE 37

RECURSIVE SkipSpace(_)
SkipSpace(str) ==
    IF Len(str) > 0 /\ str[1] = " " THEN SkipSpace(Tail(str)) ELSE str

\* the value of c as a digit of radix r, or -1
DigitOf(c, r) ==
    LET d == indexOf(digits, toLowerCase(IF c = "KELVIN" THEN "?" ELSE c))
    IN  IF d >= 0 /\ d < r THEN d ELSE -1

RECURSIVE DigitPrefixLen(_, _)
DigitPrefixLen(str, r) ==
    IF Len(str) > 0 /\ DigitOf(str[1], r) >= 0
    THEN 1 + DigitPrefixLen(Tail(str), r)
    ELSE 0

RECURSIVE MathInt(_, _, _, _)
\* the exact value of the digits lo..hi of str in radix r, by halves
MathInt(str, r, lo, hi) ==
    IF lo > hi THEN <<>>
    ELSE IF lo = hi THEN BFromNat(DigitOf(str[lo], r))
    ELSE BAdd(BMul(MathInt(str, r, lo, (lo + hi) \div 2),
                   BPow(<<r>>, hi - (lo + hi) \div 2)),
              MathInt(str, r, (lo + hi) \div 2 + 1, hi))

\* the digits of s3 in radix r, n of them, as a Number of sign neg
parseDigits(neg, s3, r, n) ==
    IF n = 0 THEN NaN
    ELSE IF \A j \in 1..n : DigitOf(s3[j], r) = 0 THEN Zero(neg)
    ELSE DRound(neg, MathInt(s3, r, 1, n), 0)

\* the steps of parseInt after the 0x prefix has been dealt with
parsePrefix(neg, s3, r) ==
    IF r = 37 THEN NaN ELSE parseDigits(neg, s3, r, DigitPrefixLen(s3, r))

\* s2 starts with 0x or 0X
hasHexPrefix(s2) == Len(s2) >= 2 /\ s2[1] = "0" /\ s2[2] \in {"x", "X"}

\* the steps of parseInt after the sign has been read; r0 is ToInt32(radix)
parseUnsigned(neg, s2, r0) ==
    IF r0 \in {0, 16} /\ hasHexPrefix(s2)
    THEN parsePrefix(neg, Tail(Tail(s2)), 16)
    ELSE parsePrefix(neg, s2, IF r0 = 0 THEN 10 ELSE r0)

\* the steps of parseInt after the white space has been skipped
parseSigned(s1, r0) ==
    IF Len(s1) > 0 /\ s1[1] \in {"+", "-"}
    THEN parseUnsigned(s1[1] = "-", Tail(s1), r0)
    ELSE parseUnsigned(FALSE, s1, r0)

\* parseInt(str, radix), radix a Number
parseInt(str, radix) == parseSigned(SkipSpace(str), RadixOf(radix))

\* parseInt(base): the radix argument is undefined
parseInt1(str) == parseInt(str, NaN)

\* parseValue(base, value) of solvepolynomial.js
parseValue(base, value) == parseInt(value, parseInt1(base))


(***************************************************************************)
(* answer.js: Lagrange interpolation at 0.  A point is <<x, y>>, both      *)
(* Numbers.                                                                *)
(***************************************************************************)
\* the slice forgotten: every point is kept
sliceAll(arr, k) == arr

\* Array.prototype.slice(0, k) for an integer k >= 0
slice0(arr, k) == SubSeq(arr, 1, Min2(k, Len(arr)))

RECURSIVE basisFrom(_, _, _, _)
\* the inner loop over j, from j on, basisValue being acc
basisFrom(sel, i, j, acc) ==
    IF j > Len(sel) THEN acc
    ELSE IF i = j THEN basisFrom(sel, i, j + 1, acc)
    ELSE basisFrom(sel, i, j + 1,
                   DMul(acc, DDiv(DSub(Zero(FALSE), sel[j][1]),
                                  DSub(sel[i][1], sel[j][1]))))

\* Li(0), as the loop over j computes it
basisValue(sel, i) == basisFrom(sel, i, 1, DFromInt(1))

RECURSIVE secretFrom(_, _, _)
\* the outer loop over i, from i on, secret being acc
secretFrom(sel, i, acc) ==
    IF i > Len(sel) THEN acc
    ELSE secretFrom(sel, i + 1,
                    DAdd(acc, DMul(sel[i][2], basisValue(sel, i))))

\* lagrangeInterpolation(points, k)
lagrangeInterpolation(points, k) ==
    MathRound(secretFrom(slice0(points, k), 1, Zero(FALSE)))

(***************************************************************************)
(* solvepolynomial.js: Gauss-Jordan elimination with partial pivoting.  A  *)
(* is a sequence of rows, b a sequence, both of Numbers, indexed from 1.   *)
(***************************************************************************)
Undefined == [cls |-> "undefined", neg |-> FALSE, m |-> <<>>, e |-> 0]

RECURSIVE maxRowFrom(_, _, _, _)
\* the scan of the rows k..n for the largest |A[k][i]|
maxRowFrom(A, i, k, maxRow) ==
    IF k > Len(A) THEN maxRow
    ELSE IF DGt(MathAbs(A[k][i]), MathAbs(A[maxRow][i]))
    THEN maxRowFrom(A, i, k + 1, k)
    ELSE maxRowFrom(A, i, k + 1, maxRow)

swap(arr, i, j) == [arr EXCEPT ![i] = arr[j], ![j] = arr[i]]

\* lines 23-28: row i, normalised to rowi and bi, is taken from the others
eliminate(A1, b1, i, div, rowi, bi) ==
    [A |-> [k \in 1..Len(A1) |->
              IF k = i THEN rowi
              ELSE [j \in 1..Len(A1[k]) |->
                      IF j >= i /\ j <= Len(A1)
                      THEN DSub(A1[k][j], DMul(A1[k][i], rowi[j]))
                      ELSE A1[k][j]]],
     b |-> [k \in 1..Len(A1) |->
              IF k = i THEN bi ELSE DSub(b1[k], DMul(A1[k][i], bi))],
     div |-> div]

\* lines 19-21: row i is divided by the pivot
normalise(A1, b1, i, div) ==
    eliminate(A1, b1, i, div,
              [j \in 1..Len(A1[i]) |->
                  IF j >= i /\ j <= Len(A1) THEN DDiv(A1[i][j], div)
                  ELSE A1[i][j]],
              DDiv(b1[i], div))

\* lines 16-19: the rows i and maxRow change places; div is the new A[i][i]
pivot(A, b, i, maxRow) ==
    normalise(swap(A, i, maxRow), swap(b, i, maxRow), i, A[maxRow][i])

\* one pass of the outer loop of gaussJordan, for the pivot column i: the
\* matrix and the vector after it, and the pivot div it divided by
gaussJordanStep(A, b, i) == pivot(A, b, i, maxRowFrom(A, i, i + 1, i))

RECURSIVE gaussJordanFrom(_, _, _)
gaussJordanFrom(A, b, i) ==
    IF i > Len(A) THEN b
    ELSE LET st == gaussJordanStep(A, b, i)
         IN  gaussJordanFrom(st.A, st.b, i + 1)

\* gaussJordan(A, b)
gaussJordan(A, b) == gaussJordanFrom(A, b, 1)

\* the rows [x^0, ..., x^degree] of the points
vandermonde(points, degree) ==
    [r \in 1..Len(points) |->
        [p \in 1..(degree + 1) |-> MathPow(points[r][1], p - 1)]]

rhs(points) == [r \in 1..Len(points) |-> points[r][2]]

\* coeffs[0]
first(arr) == IF Len(arr) = 0 THEN Undefined ELSE arr[1]

\* lines 48-60 of solvePolynomial: the system of the points, solved
solveSystem(points, k) ==
    first(gaussJordan(vandermonde(points, k - 1), rhs(points)))


(***************************************************************************)
(* The state.  Three groups of variables, one per specification below:     *)
(* the two programs solving one input (Spec), the decoding of one encoded  *)
(* point by either program (SpecConvert), and the two interpolation        *)
(* routines on one list of points (SpecInterp).                            *)
(***************************************************************************)
VARIABLES
    testData,       \* the input: keys.n, keys.k and the entries by key
    ans_pc,         \* answer.js: "parse", then "done"
    ans_i,          \* parseTestCase: the loop variable i
    ans_points,     \* parseTestCase: points
    ans_decoded,    \* the keys whose value convertToDecimal was called on
    ans_selected,   \* lagrangeInterpolation: selectedPoints
    ans_out,        \* what solveShamirSecretSharing ended in
    sol_pc,         \* solvepolynomial.js: "extract", then "done"
    sol_idx,        \* solvePolynomial: idx
    sol_points,     \* solvePolynomial: points
    sol_decoded,    \* the keys whose value parseValue was called on
    sol_out,        \* what solvePolynomial ended in
    cv_base,        \* the base numeral of the encoded point
    cv_value,       \* its value string
    cv_pc,          \* convertToDecimal: "loop", then "done"
    cv_i,           \* convertToDecimal: the loop variable i, from 1
    cv_result,      \* convertToDecimal: result
    cv_out,         \* what convertToDecimal ended in
    pv_out,         \* what parseValue ended in
    ip_points,      \* the points handed to the interpolation routines
    ip_k,           \* the threshold k
    ip_poly,        \* the coefficients the points were sampled from, or <<>>
    lag_out,        \* what lagrangeInterpolation ended in
    gj_pc,          \* "build", "elim", then "done"
    gj_A,           \* gaussJordan: A
    gj_b,           \* gaussJordan: b
    gj_i,           \* gaussJordan: the pivot column i, from 1
    gj_divs,        \* the pivots div met so far
    gj_out          \* what solvePolynomial's system solving ended in

mainVars == << testData, ans_pc, ans_i, ans_points, ans_decoded, ans_selected,
               ans_out, sol_pc, sol_idx, sol_points, sol_decoded, sol_out >>
convVars == << cv_base, cv_value, cv_pc, cv_i, cv_result, cv_out, pv_out >>
interpVars == << ip_points, ip_k, ip_poly, lag_out, gj_pc, gj_A, gj_b, gj_i,
                 gj_divs, gj_out >>
vars == << mainVars, convVars, interpVars >>

NoOutcome == [kind |-> "none"]

\* the groups of variables a specification does not use
MainIdle ==
    /\ testData = [n |-> 0, k |-> 0, entries |-> <<>>]
    /\ ans_pc = "idle" /\ ans_i = 0 /\ ans_points = <<>> /\ ans_decoded = {}
    /\ ans_selected = <<>> /\ ans_out = NoOutcome
    /\ sol_pc = "idle" /\ sol_idx = 0 /\ sol_points = <<>> /\ sol_decoded = {}
    /\ sol_out = NoOutcome

ConvIdle ==
    /\ cv_base = <<>> /\ cv_value = <<>> /\ cv_pc = "idle" /\ cv_i = 0
    /\ cv_result = Zero(FALSE) /\ cv_out = NoOutcome /\ pv_out = NoOutcome

InterpIdle ==
    /\ ip_points = <<>> /\ ip_k = 0 /\ ip_poly = <<>> /\ lag_out = NoOutcome
    /\ gj_pc = "idle" /\ gj_A = <<>> /\ gj_b = <<>> /\ gj_i = 0
    /\ gj_divs = <<>> /\ gj_out = NoOutcome

(***************************************************************************)
(* The inputs of Spec.  An input holds keys.n, keys.k and, for some of the *)
(* keys 1..MaxN and the key MaxN + 2, an encoded point.  The points of the *)
(* keys 1, 2, 3 and 6 are those of testCase1; they lie on x^2 + 3, and so  *)
(* do the points given to the other keys, written in base 36.  At most one *)
(* key holds a value with a character that is no digit of its base.        *)
(***************************************************************************)
MaxN == 4
MaxK == 3

Keys == 1..MaxN \cup {MaxN + 2}

Entry(base, value) == [present |-> TRUE, base |-> base, value |-> value]
NoEntry == [present |-> FALSE, base |-> <<>>, value |-> <<>>]

GoodEntry(key) ==
    CASE key = 1 -> Entry(<<"1", "0">>, <<"4">>)
      [] key = 2 -> Entry(<<"2">>, <<"1", "1", "1">>)
      [] key = 3 -> Entry(<<"1", "0">>, <<"1", "2">>)
      [] key = 6 -> Entry(<<"4">>, <<"2", "1", "3">>)
      [] OTHER -> LET y == key * key + 3
                  IN  Entry(<<"3", "6">>,
                            <<digits[(y \div 36) + 1], digits[(y % 36) + 1]>>)

BadEntry == Entry(<<"1", "0">>, <<"1", "z">>)

Inputs ==
    { [n |-> n, k |-> k,
       entries |-> [key \in Keys |->
                      IF key \notin present THEN NoEntry
                      ELSE IF key \in bad THEN BadEntry
                      ELSE GoodEntry(key)]] :
        n \in 1..MaxN, k \in 1..MaxK,
        present \in SUBSET Keys,
        bad \in {{}} \cup {{key} : key \in Keys} }

\* testData[key] is an object (the key is present)
Has(td, key) == key \in DOMAIN td.entries /\ td.entries[key].present

InsufficientPoints(k, found) ==
    [msg |-> "Insufficient points", need |-> k, found |-> found]

(***************************************************************************)
(* answer.js: solveShamirSecretSharing(testData)                           *)
(***************************************************************************)
\* lines 70-73 for the entry of key i, y being what convertToDecimal ended
\* in: an Error it throws ends solveShamirSecretSharing
ParseEntry(y) ==
    /\ ans_decoded' = ans_decoded \cup {ans_i}
    /\ IF y.kind = "throw"
       THEN /\ ans_out' = y
            /\ ans_pc' = "done"
            /\ UNCHANGED << ans_i, ans_points >>
       ELSE /\ ans_points' = Append(ans_points, <<DFromInt(ans_i), y.val>>)
            /\ ans_i' = ans_i + 1
            /\ UNCHANGED << ans_pc, ans_out >>

\* parseTestCase, one iteration of the loop over i (lines 67-75)
ParseIter ==
    /\ ans_pc = "parse"
    /\ ans_i <= testData.n
    /\ IF Has(testData, ans_i)
       THEN ParseEntry(convertToDecimal(testData.entries[ans_i].value,
                                        parseInt1(testData.entries[ans_i].base)))
       ELSE /\ ans_i' = ans_i + 1
            /\ UNCHANGED << ans_points, ans_decoded, ans_pc, ans_out >>
    /\ UNCHANGED << testData, ans_selected >>
    /\ UNCHANGED << sol_pc, sol_idx, sol_points, sol_decoded, sol_out >>
    /\ UNCHANGED << convVars, interpVars >>

\* the rest of solveShamirSecretSharing once parseTestCase has returned
\* (lines 94-118): the check of the count, the interpolation, the result
SolveFinish ==
    /\ ans_pc = "parse"
    /\ ans_i > testData.n
    /\ LET k == testData.k
           totalPointsFound == Len(ans_points)
       IN  IF totalPointsFound < k
           THEN /\ ans_out' = Throw(InsufficientPoints(k, totalPointsFound))
                /\ UNCHANGED ans_selected
           ELSE /\ ans_selected' = slice0(ans_points, k)
                /\ ans_out' =
                     Return([secret |-> lagrangeInterpolation(ans_points, k),
                             pointsUsed |-> k,
                             totalPoints |-> totalPointsFound,
                             polynomial_degree |-> k - 1])
    /\ ans_pc' = "done"
    /\ UNCHANGED << testData, ans_i, ans_points, ans_decoded >>
    /\ UNCHANGED << sol_pc, sol_idx, sol_points, sol_decoded, sol_out >>
    /\ UNCHANGED << convVars, interpVars >>

(***************************************************************************)
(* solvepolynomial.js: solvePolynomial(jsonData)                           *)
(***************************************************************************)
\* the condition of the while loop (line 40)
extracting == Len(sol_points) < testData.k /\ sol_idx <= testData.n

\* one iteration of the while loop (lines 40-46)
ExtractIter ==
    /\ sol_pc = "extract"
    /\ extracting
    /\ IF Has(testData, sol_idx)
       THEN /\ sol_points' =
                  Append(sol_points,
                         <<DFromInt(sol_idx),
                           parseValue(testData.entries[sol_idx].base,
                                      testData.entries[sol_idx].value)>>)
            /\ sol_decoded' = sol_decoded \cup {sol_idx}
       ELSE UNCHANGED << sol_points, sol_decoded >>
    /\ sol_idx' = sol_idx + 1
    /\ UNCHANGED << testData, sol_pc, sol_out >>
    /\ UNCHANGED << ans_pc, ans_i, ans_points, ans_decoded, ans_selected,
                    ans_out >>
    /\ UNCHANGED << convVars, interpVars >>

\* the rest of solvePolynomial (lines 48-60)
SolveSystem ==
    /\ sol_pc = "extract"
    /\ ~extracting
    /\ sol_out' = Return(solveSystem(sol_points, testData.k))
    /\ sol_pc' = "done"
    /\ UNCHANGED << testData, sol_idx, sol_points, sol_decoded >>
    /\ UNCHANGED << ans_pc, ans_i, ans_points, ans_decoded, ans_selected,
                    ans_out >>
    /\ UNCHANGED << convVars, interpVars >>

Init ==
    /\ testData \in Inputs
    /\ ans_pc = "parse" /\ ans_i = 1 /\ ans_points = <<>> /\ ans_decoded = {}
    /\ ans_selected = <<>> /\ ans_out = NoOutcome
    /\ sol_pc = "extract" /\ sol_idx = 1 /\ sol_points = <<>>
    /\ sol_decoded = {} /\ sol_out = NoOutcome
    /\ ConvIdle
    /\ InterpIdle

Next == ParseIter \/ SolveFinish \/ ExtractIter \/ SolveSystem

Spec == Init /\ [][Next]_vars


(***************************************************************************)
(* SpecConvert: one encoded point { base, value } is decoded, by answer.js *)
(* as convertToDecimal(value, parseInt(base)) (line 72), iteration by      *)
(* iteration, and by solvepolynomial.js as parseValue(base, value) (line   *)
(* 42).  The encoded points are every string of at most MaxLen characters  *)
(* of Alphabet in every base 2..36, the entries of testCase1 and testCase2 *)
(* of answer.js, and 2^53 and 2^53 + 1 in decimal.                         *)
(***************************************************************************)
MaxLen == 2

Alphabet == {"0", "1", "7", "a", "F", "z", " ", "-", "KELVIN"}

\* the decimal numeral of b < 100
Numeral(b) ==
    IF b < 10 THEN <<digits[b + 1]>>
    ELSE <<digits[(b \div 10) + 1], digits[(b % 10) + 1]>>

RECURSIVE Strings(_)
\* the strings of exactly len characters of Alphabet
Strings(len) ==
    IF len = 0 THEN {<<>>}
    ELSE {Append(str, c) : str \in Strings(len - 1), c \in Alphabet}

ShortPoints ==
    {Entry(Numeral(b), str) :
        b \in 2..36, str \in UNION {Strings(len) : len \in 0..MaxLen}}

\* testCase1 and testCase2 of answer.js (lines 122-143)
FixturePoints ==
    { Entry(<<"1", "0">>, <<"4">>),
      Entry(<<"2">>, <<"1", "1", "1">>),
      Entry(<<"1", "0">>, <<"1", "2">>),
      Entry(<<"4">>, <<"2", "1", "3">>),
      Entry(<<"6">>, <<"1", "3", "4", "4", "4", "2", "1", "1", "4", "4", "0",
                       "4", "5", "5", "3", "4", "5", "5", "1", "1">>),
      Entry(<<"1", "5">>, <<"a", "e", "d", "7", "0", "1", "5", "a", "3", "4",
                            "6", "d", "6", "3", "5">>),
      Entry(<<"1", "5">>, <<"6", "a", "e", "e", "b", "6", "9", "6", "3", "1",
                            "c", "2", "2", "7", "c">>),
      Entry(<<"1", "6">>, <<"e", "1", "b", "5", "e", "0", "5", "6", "2", "3",
                            "d", "8", "8", "1", "f">>),
      Entry(<<"8">>, <<"3", "1", "6", "0", "3", "4", "5", "1", "4", "5", "7",
                       "3", "6", "5", "2", "6", "2", "0", "6", "7", "3">>),
      Entry(<<"3">>, <<"2", "1", "2", "2", "2", "1", "2", "2", "0", "1", "1",
                       "2", "2", "0", "0", "2", "2", "2", "1", "1", "2", "0",
                       "2", "0", "0", "2", "1", "0", "0", "1", "1", "0", "2",
                       "0", "2", "2", "0", "2", "0", "0">>),
      Entry(<<"3">>, <<"2", "0", "1", "2", "0", "2", "2", "1", "1", "2", "2",
                       "2", "1", "1", "0", "0", "0", "1", "0", "0", "2", "1",
                       "0", "0", "2", "1", "1", "0", "2", "0", "0", "1", "2",
                       "0", "1", "1", "1", "2", "1", "2", "1">>),
      Entry(<<"6">>, <<"2", "0", "2", "2", "0", "5", "5", "4", "3", "3", "5",
                       "3", "3", "0", "2", "4", "0", "0", "0", "2", "2", "2",
                       "4", "2", "5", "3">>),
      Entry(<<"1", "2">>, <<"4", "5", "1", "5", "3", "7", "8", "8", "3", "2",
                            "2", "a", "1", "2", "5", "5", "4", "8", "3">>),
      Entry(<<"7">>, <<"1", "1", "0", "1", "6", "1", "3", "1", "3", "0", "3",
                       "1", "3", "5", "2", "6", "3", "1", "2", "5", "1", "4",
                       "1", "4", "3">>) }

\* 2^53 = 9007199254740992 and 2^53 + 1
BoundaryPoints ==
    { Entry(<<"1", "0">>, <<"9", "0", "0", "7", "1", "9", "9", "2", "5", "4",
                            "7", "4", "0", "9", "9", "2">>),
      Entry(<<"1", "0">>, <<"9", "0", "0", "7", "1", "9", "9", "2", "5", "4",
                            "7", "4", "0", "9", "9", "3">>) }

EncodedPoints == ShortPoints \cup FixturePoints \cup BoundaryPoints

\* lines 15-19 have run for value[i] and ended in st
ConvertIterTo(st) ==
    IF st.kind = "throw"
    THEN /\ cv_out' = st
         /\ cv_pc' = "done"
         /\ UNCHANGED << cv_i, cv_result >>
    ELSE /\ cv_result' = st.val
         /\ cv_i' = cv_i + 1
         /\ UNCHANGED << cv_pc, cv_out >>

\* convertToDecimal, one iteration of the loop (lines 14-20)
ConvertIter ==
    /\ cv_pc = "loop"
    /\ cv_i <= Len(cv_value)
    /\ ConvertIterTo(convertStep(cv_value, parseInt1(cv_base), cv_i, cv_result))
    /\ UNCHANGED << cv_base, cv_value, pv_out >>
    /\ UNCHANGED << mainVars, interpVars >>

\* convertToDecimal, return result (line 22)
ConvertReturn ==
    /\ cv_pc = "loop"
    /\ cv_i > Len(cv_value)
    /\ cv_out' = Return(cv_result)
    /\ cv_pc' = "done"
    /\ UNCHANGED << cv_base, cv_value, cv_i, cv_result, pv_out >>
    /\ UNCHANGED << mainVars, interpVars >>

\* parseValue(base, value) (lines 3-5)
ParseValue ==
    /\ cv_pc \in {"loop", "done"}
    /\ pv_out = NoOutcome
    /\ pv_out' = Return(parseValue(cv_base, cv_value))
    /\ UNCHANGED << cv_base, cv_value, cv_pc, cv_i, cv_result, cv_out >>
    /\ UNCHANGED << mainVars, interpVars >>

InitConvert ==
    /\ \E ent \in EncodedPoints : cv_base = ent.base /\ cv_value = ent.value
    /\ cv_pc = "loop" /\ cv_i = 1 /\ cv_result = Zero(FALSE)
    /\ cv_out = NoOutcome /\ pv_out = NoOutcome
    /\ MainIdle
    /\ InterpIdle

NextConvert == ConvertIter \/ ConvertReturn \/ ParseValue

SpecConvert == InitConvert /\ [][NextConvert]_vars

(***************************************************************************)
(* SpecInterp: the two interpolation routines run on one list of k points. *)
(* The points are the samples (x, f(x)) of a polynomial f with natural     *)
(* coefficients, kept in ip_poly, at k abscissas of 1..MaxX in any order,  *)
(* repeated ones included; only samples that are Numbers are taken.        *)
(* lagrangeInterpolation(points, k) runs in one step; the system of        *)
(* solvePolynomial is built and solved by gaussJordan one pivot column at  *)
(* a time, gj_divs keeping the pivots it divided by.                       *)
(***************************************************************************)
MaxDeg == 2
MaxX == 3

\* the Number d is the natural number v, exactly
IsExactly(d, v) ==
    /\ IsFinite(d)
    /\ IF Len(v) = 0 THEN IsZero(d)
       ELSE ~IsZero(d) /\ ~d.neg /\ d.e >= 0 /\ BShl(d.m, d.e) = v

\* 2^53 - 1, Number.MAX_SAFE_INTEGER
MaxSafe == BSub(BShl(<<1>>, MantBits), <<1>>)

Coefficients == {<<>>, <<1>>, <<3>>, MaxSafe}

RECURSIVE PolyFrom(_, _, _)
\* poly[p] + x * (poly[p + 1] + x * ...), an exact natural
PolyFrom(poly, x, p) ==
    IF p > Len(poly) THEN <<>>
    ELSE BAdd(poly[p], BMulSmall(PolyFrom(poly, x, p + 1), x))

PolyAt(poly, x) == PolyFrom(poly, x, 1)

\* the Number nearest to the natural v
NumberOf(v) == IF Len(v) = 0 THEN Zero(FALSE) ELSE DRound(FALSE, v, 0)

\* the samples of poly at the abscissas xs, as [x, y] pairs of Numbers
SamplesOf(poly, xs) ==
    [r \in 1..Len(xs) |-> <<DFromInt(xs[r]), NumberOf(PolyAt(poly, xs[r]))>>]

DistinctX(points) ==
    \A r, q \in 1..Len(points) : r # q => ~DEq(points[r][1], points[q][1])

\* lagrangeInterpolation(points, k) (lines 31-55)
Lagrange ==
    /\ lag_out = NoOutcome
    /\ lag_out' = Return(lagrangeInterpolation(ip_points, ip_k))
    /\ UNCHANGED << ip_points, ip_k, ip_poly, gj_pc, gj_A, gj_b, gj_i, gj_divs,
                    gj_out >>
    /\ UNCHANGED << mainVars, convVars >>

\* solvePolynomial, lines 48-57: the matrix A and the vector b of the points
BuildSystem ==
    /\ gj_pc = "idle"
    /\ gj_A' = vandermonde(ip_points, ip_k - 1)
    /\ gj_b' = rhs(ip_points)
    /\ gj_i' = 1
    /\ gj_pc' = "loop"
    /\ UNCHANGED << ip_points, ip_k, ip_poly, lag_out, gj_divs, gj_out >>
    /\ UNCHANGED << mainVars, convVars >>

\* lines 10-28 have run for the column gj_i and ended in st
GaussJordanIterTo(st) ==
    /\ gj_A' = st.A
    /\ gj_b' = st.b
    /\ gj_divs' = Append(gj_divs, st.div)
    /\ gj_i' = gj_i + 1

\* gaussJordan, one pass of the outer loop (lines 9-29)
GaussJordanIter ==
    /\ gj_pc = "loop"
    /\ gj_i <= Len(gj_A)
    /\ GaussJordanIterTo(gaussJordanStep(gj_A, gj_b, gj_i))
    /\ UNCHANGED << ip_points, ip_k, ip_poly, lag_out, gj_pc, gj_out >>
    /\ UNCHANGED << mainVars, convVars >>

\* gaussJordan returns b (line 30), solvePolynomial returns coeffs[0]
GaussJordanReturn ==
    /\ gj_pc = "loop"
    /\ gj_i > Len(gj_A)
    /\ gj_out' = Return(first(gj_b))
    /\ gj_pc' = "done"
    /\ UNCHANGED << ip_points, ip_k, ip_poly, lag_out, gj_A, gj_b, gj_i,
                    gj_divs >>
    /\ UNCHANGED << mainVars, convVars >>

InitInterp ==
    /\ \E k \in 1..(MaxDeg + 1) :
         \E poly \in [1..k -> Coefficients], xs \in [1..k -> 1..MaxX] :
            /\ \A r \in 1..k :
                 IsExactly(SamplesOf(poly, xs)[r][2], PolyAt(poly, xs[r]))
            /\ ip_k = k
            /\ ip_poly = poly
            /\ ip_points = SamplesOf(poly, xs)
    /\ lag_out = NoOutcome
    /\ gj_pc = "idle" /\ gj_A = <<>> /\ gj_b = <<>> /\ gj_i = 0
    /\ gj_divs = <<>> /\ gj_out = NoOutcome
    /\ MainIdle
    /\ ConvIdle

NextInterp == Lagrange \/ BuildSystem \/ GaussJordanIter \/ GaussJordanReturn

SpecInterp == InitInterp /\ [][NextInterp]_vars

(***************************************************************************)
(* What the claims are stated with: the digit symbols of the specification *)
(* and the keys an input offers, defined without the programs' code.       *)
(***************************************************************************)
\* the value of a symbol of {0-9, a-z, A-Z}, or -1 for any other character
SymbolValue(c) ==
    IF \E d \in 1..Len(digits) : digits[d] = c
    THEN (CHOOSE d \in 1..Len(digits) : digits[d] = c) - 1
    ELSE IF \E u \in 1..Len(UpperCase) : UpperCase[u] = c
    THEN 9 + (CHOOSE u \in 1..Len(UpperCase) : UpperCase[u] = c)
    ELSE -1

\* the base a decimal numeral of one or two digits names
BaseOf(numeral) ==
    IF Len(numeral) = 1 THEN SymbolValue(numeral[1])
    ELSE 10 * SymbolValue(numeral[1]) + SymbolValue(numeral[2])

\* every character of value is a digit of base b
ValidDigits(value, b) ==
    \A c \in 1..Len(value) : SymbolValue(value[c]) \in 0..(b - 1)

\* the keys of 1..n that hold an encoded point
PresentKeys(td) == {key \in 1..td.n : Has(td, key)}

\* the k smallest of them (all of them when there are fewer than k)
FirstKeys(td) ==
    {key \in PresentKeys(td) :
        Cardinality({j \in PresentKeys(td) : j < key}) < td.k}

\* the keys of S in ascending order, as Numbers
KeySeq(S) ==
    [r \in 1..Cardinality(S) |->
        DFromInt(CHOOSE key \in S : Cardinality({j \in S : j < key}) = r - 1)]

XsOf(points) == [r \in 1..Len(points) |-> points[r][1]]

Decodable(td, key) ==
    ValidDigits(td.entries[key].value, BaseOf(td.entries[key].base))

\* C1: when at least k of the keys 1..n are present, the points interpolated
\* are the k smallest present keys of 1..n, in ascending order, each with x
\* its key: selectedPoints of lagrangeInterpolation in answer.js, points of
\* solvePolynomial in solvepolynomial.js.
C1_PointSelection ==
    Cardinality(PresentKeys(testData)) >= testData.k =>
        /\ (ans_pc = "done" /\ ans_out.kind = "return") =>
               XsOf(ans_selected) = KeySeq(FirstKeys(testData))
        /\ sol_pc = "done" => XsOf(sol_points) = KeySeq(FirstKeys(testData))

\* scenario 3: n = 4, k = 3, the keys 1, 2, 3 and 6 present; both programs
\* have interpolated the keys 1, 2, 3
C1_Witness ==
    /\ testData.n = 4 /\ testData.k = 3
    /\ \A key \in Keys : Has(testData, key) <=> key \in {1, 2, 3, 6}
    /\ ans_pc = "done" /\ ans_out.kind = "return"
    /\ sol_pc = "done"
    /\ XsOf(ans_selected) = <<DFromInt(1), DFromInt(2), DFromInt(3)>>
    /\ XsOf(sol_points) = <<DFromInt(1), DFromInt(2), DFromInt(3)>>
    /\ ans_out.val.secret = DFromInt(3)

\* C2: when fewer than k of the keys 1..n are present (each of them with a
\* valid digit string), either solver ends in the Error InsufficientPoints
\* with needed = k and found = the number of present keys, and returns
\* nothing.
C2_InsufficientPoints ==
    ( /\ Cardinality(PresentKeys(testData)) < testData.k
      /\ \A key \in PresentKeys(testData) : Decodable(testData, key) ) =>
        /\ ans_pc = "done" =>
             ans_out = Throw(InsufficientPoints(
                                testData.k, Cardinality(PresentKeys(testData))))
        /\ sol_pc = "done" =>
             sol_out = Throw(InsufficientPoints(
                                testData.k, Cardinality(PresentKeys(testData))))

\* C8: on one input the two solvers end alike: both return, and the same
\* secret, or both are rejected with an Error.
C8_StrategyEquivalence ==
    (ans_pc = "done" /\ sol_pc = "done") =>
        \/ ans_out.kind = "throw" /\ sol_out.kind = "throw"
        \/ /\ ans_out.kind = "return" /\ sol_out.kind = "return"
           /\ DEq(ans_out.val.secret, sol_out.val)

\* C10: extraction stops at the k-th present key: no key after it is ever
\* decoded, and when the first k present keys hold valid digit strings the
\* solve returns a secret whatever a later key holds.
C10_EarlyStop ==
    /\ ans_decoded \subseteq FirstKeys(testData)
    /\ sol_decoded \subseteq FirstKeys(testData)
    /\ ( /\ Cardinality(PresentKeys(testData)) >= testData.k
         /\ \A key \in FirstKeys(testData) : Decodable(testData, key) ) =>
           /\ ans_pc = "done" => ans_out.kind = "return"
           /\ sol_pc = "done" => sol_out.kind = "return"


RECURSIVE PositionalValue(_, _, _, _)
\* the value of the digits lo..hi of value in base b, an exact natural
PositionalValue(value, b, lo, hi) ==
    IF lo > hi THEN <<>>
    ELSE IF lo = hi THEN BFromNat(SymbolValue(value[lo]))
    ELSE BAdd(BMul(PositionalValue(value, b, lo, (lo + hi) \div 2),
                   BPow(<<b>>, hi - (lo + hi) \div 2)),
              PositionalValue(value, b, (lo + hi) \div 2 + 1, hi))

TwoTo53 == BShl(<<1>>, MantBits)

\* C5: for a non-empty string of valid digits of its base, convertToDecimal
\* returns the positional value of the string (so that writing v in base b
\* and converting back yields v).
C5_PositionalValue ==
    ( /\ cv_pc = "done"
      /\ Len(cv_value) > 0
      /\ ValidDigits(cv_value, BaseOf(cv_base)) ) =>
        /\ cv_out.kind = "return"
        /\ IsExactly(cv_out.val,
                     PositionalValue(cv_value, BaseOf(cv_base), 1, Len(cv_value)))

\* the first character of value that is no digit of base b
FirstOffending(value, b) ==
    value[CHOOSE c \in 1..Len(value) :
            /\ SymbolValue(value[c]) \notin 0..(b - 1)
            /\ \A p \in 1..(c - 1) : SymbolValue(value[p]) \in 0..(b - 1)]

\* C6: for a string with a character that is no digit of its base, the
\* conversion of either solver ends in the Error InvalidDigit naming the
\* first such character and the base, and returns no number.
C6_InvalidDigit ==
    ~ValidDigits(cv_value, BaseOf(cv_base)) =>
        /\ cv_pc = "done" =>
             cv_out = Throw(InvalidDigit(
                              FirstOffending(cv_value, BaseOf(cv_base)),
                              DFromInt(BaseOf(cv_base))))
        /\ pv_out # NoOutcome =>
             pv_out = Throw(InvalidDigit(
                              FirstOffending(cv_value, BaseOf(cv_base)),
                              DFromInt(BaseOf(cv_base))))

\* C7: converting the empty string ends in an Error and returns no number.
C7_EmptyValue ==
    (cv_pc = "done" /\ cv_value = <<>>) => cv_out.kind = "throw"

\* C9: for a string of valid digits whose value exceeds 2^53, the
\* accumulation result * base + digit is never rounded: after every
\* iteration result is the exact value of the digits read, and so is the
\* Number returned.
C9_ExactAccumulation ==
    ( /\ cv_pc \in {"loop", "done"}
      /\ ValidDigits(cv_value, BaseOf(cv_base))
      /\ BCmp(PositionalValue(cv_value, BaseOf(cv_base), 1, Len(cv_value)),
              TwoTo53) > 0 ) =>
        /\ IsExactly(cv_result,
                     PositionalValue(cv_value, BaseOf(cv_base), 1, cv_i - 1))
        /\ cv_pc = "done" => cv_out = Return(cv_result)


\* C3: when two of the k points share an x, lagrangeInterpolation ends in
\* an Error and returns no value; when gaussJordan divides by a pivot that
\* is zero after the row swap, the solve ends in an Error and returns no
\* value.
C3_DuplicateAbscissa ==
    /\ (~DistinctX(ip_points) /\ lag_out # NoOutcome) => lag_out.kind = "throw"
    /\ (gj_pc = "done" /\ \E c \in 1..Len(gj_divs) : IsZero(gj_divs[c])) =>
          gj_out.kind = "throw"

\* C4: for k samples (x, f(x)) of a polynomial f of degree at most k - 1 at
\* pairwise distinct x, in any order, lagrangeInterpolation(points, k)
\* returns exactly f(0), the constant coefficient.
C4_SecretRecovery ==
    (DistinctX(ip_points) /\ lag_out # NoOutcome) =>
        /\ lag_out.kind = "return"
        /\ IsExactly(lag_out.val, ip_poly[1])

=============================================================================
